---- MODULE Spec2Model ----
(***************************************************************************)
(* Model of the lakehouse ingestion pipeline:                              *)
(*   src/lakehouse_pipeline/assets/ingestion.py  (Dagster assets)          *)
(*   src/scripts/insert_taxi_data.py             (stand-alone script)      *)
(*   src/lakehouse_pipeline/resources/trino_resource.py                    *)
(*                                                                         *)
(* A source row is identified by its 1-based position in the parquet file. *)
(* The destination Iceberg table is the sequence of rows committed to it,  *)
(* in commit order, together with the number of snapshots it holds.  The   *)
(* query engine applies a statement atomically: an INSERT that completes   *)
(* appends its rows and commits one snapshot; one that raises changes      *)
(* nothing.                                                                *)
(***************************************************************************)
EXTENDS Integers, Sequences, FiniteSets, TLC

VARIABLES
    fileRows,      \* rows of the published parquet file (the remote object)
    file,          \* local_path on disk: "absent", "partial" or "complete"
    downloads,     \* downloads of local_path that ran to completion
    tableExists,   \* iceberg.raw.yellow_trips has been created
    schemaSnaps,   \* snapshots the engine recorded when creating the table
    dest,          \* rows of iceberg.raw.yellow_trips, in commit order
    snapshots,     \* snapshots committed by INSERT statements
    entry,         \* entry point of the current run: "pipeline" or "script"
    pc,            \* position of the current run
    schemasOk,     \* iceberg_schemas materialised in the current run
    skipped,       \* the current run found local_path present and did not download
    df,            \* the sampled table held in memory
    start,         \* loop variable of the insertion loop
    total,         \* total / total_inserted
    conns,         \* connections opened for insertion in the current run
    cursors,       \* cursors opened for insertion in the current run
    inflight,      \* batch starts whose INSERT is submitted and not yet drained
    submitted,     \* batch starts whose INSERT was submitted, in order
    drained,       \* batch starts whose INSERT was drained, in order
    snapQueries,   \* snapshot-metadata queries issued in the current run
    result,        \* outcome of the current run
    reported,      \* <<rows_inserted, total_snapshots>> reported by the run
    dest0,         \* dest when the current run started
    snap0,         \* snapshots when the current run started
    runs,          \* runs started
    okRuns,        \* runs that inserted every batch and reported
    badRuns,       \* runs that ended in an error or were cut short
    table,         \* Row Batcher on its own: the table being batched
    bsize,         \*   the batch size
    bstart,        \*   the loop index
    batches,       \*   the batches produced so far, in order
    row,           \* Value Formatter on its own: the row being formatted
    vals,          \*   the literals produced so far
    tuple          \*   the row-tuple, once joined ("" before)

vars == <<fileRows, file, downloads, tableExists, schemaSnaps, dest, snapshots,
          entry, pc, schemasOk, skipped, df, start, total, conns, cursors,
          inflight, submitted, drained, snapQueries, result, reported, dest0,
          snap0, runs, okRuns, badRuns, table, bsize, bstart, batches, row,
          vals, tuple>>

(***************************************************************************)
(* Program constants and model bounds                                      *)
(***************************************************************************)
SAMPLE_SIZE == 10000

BATCH_SIZE == 500

MaxRuns == 2

\* database errors are injected into batches 0..MaxFaultBatch of a run, and
\* into its last batch
MaxFaultBatch == 3

MaxRows == 8

MaxBatch == 4

MaxCols == 2

\* Row counts of the published file the model is run on: empty, one row, one
\* short of a batch, one batch, a ragged last batch, more than SAMPLE_SIZE.
FileRowChoices == {0, 1, 499, 500, 1050, 10001}

(***************************************************************************)
(* Pure helpers                                                            *)
(***************************************************************************)
Min(a, b) == IF a < b THEN a ELSE b

\* pq.read_table(path): the rows of a file of n rows
ReadTable(n) == [i \in 1..n |-> i]

\* table.slice(offset, length)
Slice(t, offset, length) == SubSeq(t, offset + 1, Min(offset + length, Len(t)))

\* variant: the slice's stop taken as inclusive
IlocInclusive(t, lo, hi) == SubSeq(t, lo + 1, Min(hi + 1, Len(t)))

\* df.iloc[lo : hi]
Iloc(t, lo, hi) == SubSeq(t, lo + 1, Min(hi, Len(t)))

\* variant: range(0, stop - BATCH_SIZE, step), which drops the last batch
RangeHasShort(i, stop) == i < stop - BATCH_SIZE

\* range(0, stop, step): the loop continues while the index is below stop
RangeHas(i, stop) == i < stop

RangeNext(i, step) == i + step

\* variant: df.iloc[i : i + b - 1], one row short
BatchShort(t, i, b) == Iloc(t, i, i + b - 1)

\* the batch the loop body builds at index i
Batch(t, i, b) == Iloc(t, i, i + b)

\* variant: total += BATCH_SIZE
AddTotalFixed(t, batch) == t + BATCH_SIZE

\* total += len(batch)
AddTotal(t, batch) == t + Len(batch)

\* the storage engine's snapshot accounting (spec 4.3, 9): every INSERT
\* statement is committed on its own, with no transaction across batches, and
\* a committed insert creates a new snapshot
CommitSnapshot(n) == n + 1

\* variant: the result set is left undrained
DrainNothing(fl, i) == fl

\* cursor.fetchall(): the statement's result set is consumed
Drain(fl, i) == fl \ {i}

(***************************************************************************)
(* Value Formatter.  A scalar is its Python type and str(val).             *)
(***************************************************************************)
\* the scalars a row of df can hold once to_pandas() and iterrows() made them
\* Python objects: None (a null string), float NaN (a null number), floats,
\* integers, strings, pandas Timestamp and NaT (a null timestamp), booleans
Scalars ==
    { [type |-> "NoneType",  text |-> "None"],
      [type |-> "float",     text |-> "nan"],
      [type |-> "float",     text |-> "3.5"],
      [type |-> "float",     text |-> "inf"],
      [type |-> "int",       text |-> "42"],
      [type |-> "str",       text |-> "CASH"],
      [type |-> "str",       text |-> "nan"],
      [type |-> "str",       text |-> "O'Hare"],
      [type |-> "Timestamp", text |-> "2024-01-01 00:00:00"],
      [type |-> "NaTType",   text |-> "NaT"],
      [type |-> "bool",      text |-> "True"] }

\* val is None
IsNone(v) == v.type = "NoneType"

\* isinstance(val, float)
IsInstanceFloat(v) == v.type = "float"

\* isinstance(val, str)
IsInstanceStr(v) == v.type = "str"

\* hasattr(val, "isoformat"): datetime-like objects, pandas NaT among them
HasIsoformat(v) == v.type \in {"Timestamp", "NaTType"}

\* str(val), which is also what an f-string substitutes for {val}
Str(v) == v.text

format_value(v) ==
    IF IsNone(v) \/ (IsInstanceFloat(v) /\ Str(v) = "nan") THEN "NULL"
    ELSE IF IsInstanceStr(v) THEN "'" \o Str(v) \o "'"
    ELSE IF HasIsoformat(v) THEN "TIMESTAMP '" \o Str(v) \o "'"
    ELSE Str(v)

\* sep.join(parts)
RECURSIVE Join(_, _)
Join(parts, sep) ==
    IF parts = <<>> THEN ""
    ELSE IF Len(parts) = 1 THEN parts[1]
    ELSE parts[1] \o sep \o Join(Tail(parts), sep)

\* f"({vals})"
RowTuple(literals) == "(" \o Join(literals, ", ") \o ")"

(***************************************************************************)
(* Initial state: nothing downloaded, nothing created, no run started      *)
(***************************************************************************)
RunIdle ==
    /\ file = "absent"
    /\ downloads = 0
    /\ tableExists = FALSE
    /\ schemaSnaps = 0
    /\ dest = <<>>
    /\ snapshots = 0
    /\ entry = "none"
    /\ pc = "idle"
    /\ schemasOk = FALSE
    /\ skipped = FALSE
    /\ df = <<>>
    /\ start = 0
    /\ total = 0
    /\ conns = 0
    /\ cursors = 0
    /\ inflight = {}
    /\ submitted = <<>>
    /\ drained = <<>>
    /\ snapQueries = 0
    /\ result = "none"
    /\ reported = <<>>
    /\ dest0 = <<>>
    /\ snap0 = 0
    /\ runs = 0
    /\ okRuns = 0
    /\ badRuns = 0

BatcherIdle ==
    /\ table = <<>>
    /\ bsize = BATCH_SIZE
    /\ bstart = 0
    /\ batches = <<>>

FormatterIdle ==
    /\ row = <<>>
    /\ vals = <<>>
    /\ tuple = ""

Init ==
    /\ fileRows \in FileRowChoices
    /\ RunIdle
    /\ BatcherIdle
    /\ FormatterIdle

\* what no step of a run touches: the published file and the stand-alone
\* components' variables
fixedVars == <<fileRows, table, bsize, bstart, batches, row, vals, tuple>>

diskVars == <<fixedVars, file, downloads>>

engineVars == <<tableExists, schemaSnaps, dest, snapshots>>

loopVars == <<df, start, total, conns, cursors, inflight, submitted, drained>>

histVars == <<dest0, snap0, runs, okRuns>>

\* variant: the error is logged and the insertion loop goes on
RaiseCaught(kind) ==
    /\ pc' = "loop"
    /\ result' = kind
    /\ badRuns' = badRuns

\* variant: the failed asset does not stop the assets downstream of it
RaiseIgnored(kind) ==
    /\ pc' = "read"
    /\ result' = kind
    /\ badRuns' = badRuns + 1

\* the batch at loop index i, of a table of n rows, is one into which a
\* database error is injected
CanFault(i, n) == i <= MaxFaultBatch * BATCH_SIZE \/ i + BATCH_SIZE >= n

\* an exception leaves the function: the run is over, nothing else is touched
Raise(kind) ==
    /\ pc' = "done"
    /\ result' = kind
    /\ badRuns' = badRuns + 1

\* a run is launched: the Dagster job (definitions.py) or the script's main()
StartRun(e) ==
    /\ pc \in {"idle", "done"}
    /\ runs < MaxRuns
    /\ entry' = e
    /\ pc' = IF e = "pipeline" THEN "schemas" ELSE "read"
    /\ schemasOk' = FALSE
    /\ skipped' = FALSE
    /\ df' = <<>>
    /\ start' = 0
    /\ total' = 0
    /\ conns' = 0
    /\ cursors' = 0
    /\ inflight' = {}
    /\ submitted' = <<>>
    /\ drained' = <<>>
    /\ snapQueries' = 0
    /\ result' = "running"
    /\ reported' = <<>>
    /\ dest0' = dest
    /\ snap0' = snapshots
    /\ runs' = runs + 1
    /\ UNCHANGED <<diskVars, engineVars, okRuns, badRuns>>

\* iceberg_schemas: the DDL statements, each through TrinoResource.execute.
\* CREATE TABLE IF NOT EXISTS creates the table at most once, and the engine
\* may record a snapshot (s) for the creation.  An error raised by
\* cursor.execute leaves the asset ("raised"); one raised by cursor.fetchall
\* is caught by TrinoResource.execute and the asset completes ("swallowed").
\* Whether the asset raises or not, raw_taxi_file (which does not depend on
\* it) runs.
IcebergSchemas(o, s) ==
    /\ pc = "schemas"
    /\ schemasOk' = (o # "raised")
    /\ tableExists' = (tableExists \/ o = "ok")
    /\ schemaSnaps' = IF o = "ok" /\ ~tableExists THEN s ELSE schemaSnaps
    /\ pc' = "raw_exists"
    /\ UNCHANGED <<diskVars, dest, snapshots, entry, skipped, loopVars,
                   snapQueries, result, reported, histVars, badRuns>>

\* raw_taxi_file, line 70: if not local_path.exists()
RawExists ==
    /\ pc = "raw_exists"
    /\ skipped' = (file # "absent")
    /\ pc' = IF file # "absent" THEN "raw_meta" ELSE "raw_get"
    /\ UNCHANGED <<diskVars, engineVars, entry, schemasOk, loopVars,
                   snapQueries, result, reported, histVars, badRuns>>

\* raw_taxi_file, lines 73-74: requests.get and raise_for_status; a network
\* failure or an HTTP error status raises before the file is opened
RawGet(ok) ==
    /\ pc = "raw_get"
    /\ IF ok THEN /\ pc' = "raw_open"
                  /\ UNCHANGED <<result, badRuns>>
             ELSE Raise("download_error")
    /\ UNCHANGED <<diskVars, engineVars, entry, schemasOk, skipped, loopVars,
                   snapQueries, reported, histVars>>

\* raw_taxi_file, line 75: open(local_path, "wb") creates the file, empty
RawOpen ==
    /\ pc = "raw_open"
    /\ file' = "partial"
    /\ pc' = "raw_stream"
    /\ UNCHANGED <<fixedVars, downloads, engineVars, entry, schemasOk, skipped,
                   loopVars, snapQueries, result, reported, histVars, badRuns>>

\* raw_taxi_file, lines 76-77: the chunks are written to the open file; a
\* failure while streaming raises and leaves what was written on disk
RawStream(ok) ==
    /\ pc = "raw_stream"
    /\ IF ok THEN /\ file' = "complete"
                  /\ downloads' = downloads + 1
                  /\ pc' = "raw_meta"
                  /\ UNCHANGED <<result, badRuns>>
             ELSE /\ Raise("download_error")
                  /\ UNCHANGED <<file, downloads>>
    /\ UNCHANGED <<fixedVars, engineVars, entry, schemasOk, skipped, loopVars,
                   snapQueries, reported, histVars>>

\* raw_taxi_file, line 79: pq.ParquetFile(local_path).metadata.num_rows; a
\* truncated parquet file has no footer and cannot be opened.  On success the
\* asset is materialised and iceberg_raw_yellow_trips runs if iceberg_schemas
\* (its other upstream) was materialised too; otherwise it is skipped.
RawMeta ==
    /\ pc = "raw_meta"
    /\ IF file # "complete" THEN Raise("parquet_error")
       ELSE IF schemasOk THEN /\ pc' = "read"
                              /\ UNCHANGED <<result, badRuns>>
       ELSE Raise("upstream_failed")
    /\ UNCHANGED <<diskVars, engineVars, entry, schemasOk, skipped, loopVars,
                   snapQueries, reported, histVars>>

\* pq.read_table, table.slice(0, SAMPLE_SIZE), to_pandas
ReadSample ==
    /\ pc = "read"
    /\ IF file = "complete"
       THEN /\ df' = Slice(ReadTable(fileRows), 0, SAMPLE_SIZE)
            /\ pc' = "connect"
            /\ UNCHANGED <<result, badRuns>>
       ELSE /\ Raise("parquet_error")
            /\ UNCHANGED df
    /\ UNCHANGED <<diskVars, engineVars, entry, schemasOk, skipped, start, total,
                   conns, cursors, inflight, submitted, drained, snapQueries,
                   reported, histVars>>

\* conn = get_connection(schema="raw"); cursor = conn.cursor()
Connect ==
    /\ pc = "connect"
    /\ conns' = conns + 1
    /\ cursors' = cursors + 1
    /\ pc' = "loop"
    /\ UNCHANGED <<diskVars, engineVars, entry, schemasOk, skipped, df, start,
                   total, inflight, submitted, drained, snapQueries, result,
                   reported, histVars, badRuns>>

\* cursor.execute("INSERT INTO yellow_trips ..."): the statement is submitted;
\* it raises on a database error (among them: the table does not exist)
Execute(ok) ==
    /\ pc = "loop"
    /\ RangeHas(start, Len(df))
    /\ ok \/ CanFault(start, Len(df))
    /\ IF ok /\ tableExists
       THEN /\ submitted' = Append(submitted, start)
            /\ inflight' = inflight \cup {start}
            /\ pc' = "fetch"
            /\ UNCHANGED <<result, badRuns>>
       ELSE /\ Raise("db_error")
            /\ UNCHANGED <<submitted, inflight>>
    /\ UNCHANGED <<diskVars, engineVars, entry, schemasOk, skipped, df, start,
                   total, conns, cursors, drained, snapQueries, reported,
                   histVars>>

\* cursor.fetchall(); total += len(batch); next loop index.  The statement has
\* completed when its result set is drained: its rows are in the table and
\* the table has one snapshot more.
Fetchall(ok) ==
    /\ pc = "fetch"
    /\ ok \/ CanFault(start, Len(df))
    /\ IF ok
       THEN /\ dest' = dest \o Batch(df, start, BATCH_SIZE)
            /\ snapshots' = CommitSnapshot(snapshots)
            /\ inflight' = Drain(inflight, start)
            /\ drained' = Append(drained, start)
            /\ total' = AddTotal(total, Batch(df, start, BATCH_SIZE))
            /\ start' = RangeNext(start, BATCH_SIZE)
            /\ pc' = "loop"
            /\ UNCHANGED <<result, badRuns>>
       ELSE /\ Raise("db_error")
            /\ UNCHANGED <<dest, snapshots, inflight, drained, total, start>>
    /\ UNCHANGED <<diskVars, tableExists, schemaSnaps, entry, schemasOk, skipped,
                   df, conns, cursors, submitted, snapQueries, reported,
                   histVars>>

\* the range is exhausted: the loop is left
LoopExit ==
    /\ pc = "loop"
    /\ ~RangeHas(start, Len(df))
    /\ pc' = IF entry = "script" THEN "verify" ELSE "snap"
    /\ UNCHANGED <<diskVars, engineVars, entry, schemasOk, skipped, loopVars,
                   snapQueries, result, reported, histVars, badRuns>>

\* script only: SELECT COUNT(*) FROM yellow_trips
VerifyCount(ok) ==
    /\ pc = "verify"
    /\ IF ok /\ tableExists
       THEN /\ pc' = "snap"
            /\ UNCHANGED <<result, badRuns>>
       ELSE Raise("db_error")
    /\ UNCHANGED <<diskVars, engineVars, entry, schemasOk, skipped, loopVars,
                   snapQueries, reported, histVars>>

\* what the snapshot-metadata view of the table holds
SnapshotView == schemaSnaps + snapshots

\* the query against "yellow_trips$snapshots", and the run's report
SnapshotQuery(ok) ==
    /\ pc = "snap"
    /\ snapQueries' = snapQueries + 1
    /\ IF ok /\ tableExists
       THEN /\ reported' = <<total, SnapshotView>>
            /\ result' = "ok"
            /\ okRuns' = okRuns + 1
            /\ pc' = "done"
            /\ UNCHANGED badRuns
       ELSE /\ Raise("db_error")
            /\ UNCHANGED <<reported, okRuns>>
    /\ UNCHANGED <<diskVars, engineVars, entry, schemasOk, skipped, loopVars,
                   dest0, snap0, runs>>

Next ==
    \/ \E e \in {"pipeline", "script"} : StartRun(e)
    \/ \E o \in {"ok", "raised", "swallowed"}, s \in 0..1 : IcebergSchemas(o, s)
    \/ RawExists
    \/ \E ok \in BOOLEAN : RawGet(ok)
    \/ RawOpen
    \/ \E ok \in BOOLEAN : RawStream(ok)
    \/ RawMeta
    \/ ReadSample
    \/ Connect
    \/ \E ok \in BOOLEAN : Execute(ok)
    \/ \E ok \in BOOLEAN : Fetchall(ok)
    \/ LoopExit
    \/ \E ok \in BOOLEAN : VerifyCount(ok)
    \/ \E ok \in BOOLEAN : SnapshotQuery(ok)

Spec == Init /\ [][Next]_vars

(***************************************************************************)
(* The Row Batcher on its own: the insertion loop's slicing, for any table *)
(* and any batch size                                                      *)
(***************************************************************************)
BatchInputs ==
    {<<n, b>> : n \in 0..MaxRows, b \in 1..MaxBatch}
        \cup {<<1050, BATCH_SIZE>>, <<SAMPLE_SIZE, BATCH_SIZE>>}

InitBatch ==
    /\ fileRows = 0
    /\ RunIdle
    /\ FormatterIdle
    /\ \E in \in BatchInputs :
          /\ table = ReadTable(in[1])
          /\ bsize = in[2]
    /\ bstart = 0
    /\ batches = <<>>

\* one iteration of: for start in range(0, len(df), B): batch = df.iloc[...]
BatchStep ==
    /\ RangeHas(bstart, Len(table))
    /\ batches' = Append(batches, Batch(table, bstart, bsize))
    /\ bstart' = RangeNext(bstart, bsize)
    /\ UNCHANGED <<fileRows, file, downloads, engineVars, entry, pc, schemasOk,
                   skipped, loopVars, snapQueries, result, reported, histVars,
                   badRuns, table, bsize, row, vals, tuple>>

NextBatch == BatchStep

SpecBatch == InitBatch /\ [][NextBatch]_vars

(***************************************************************************)
(* The Value Formatter on its own: one row formatted value by value, then  *)
(* joined into its row-tuple                                               *)
(***************************************************************************)
RowInputs == UNION {[1..n -> Scalars] : n \in 1..MaxCols}

InitFormat ==
    /\ fileRows = 0
    /\ RunIdle
    /\ BatcherIdle
    /\ row \in RowInputs
    /\ vals = <<>>
    /\ tuple = ""

\* the generator: format_value(v) for v in row.values
FormatStep ==
    /\ Len(vals) < Len(row)
    /\ vals' = Append(vals, format_value(row[Len(vals) + 1]))
    /\ UNCHANGED <<fileRows, file, downloads, engineVars, entry, pc, schemasOk,
                   skipped, loopVars, snapQueries, result, reported, histVars,
                   badRuns, table, bsize, bstart, batches, row, tuple>>

\* vals = ", ".join(...); rows.append(f"({vals})")
JoinStep ==
    /\ Len(vals) = Len(row)
    /\ tuple = ""
    /\ tuple' = RowTuple(vals)
    /\ UNCHANGED <<fileRows, file, downloads, engineVars, entry, pc, schemasOk,
                   skipped, loopVars, snapQueries, result, reported, histVars,
                   badRuns, table, bsize, bstart, batches, row, vals>>

NextFormat ==
    \/ FormatStep
    \/ JoinStep

SpecFormat == InitFormat /\ [][NextFormat]_vars

(***************************************************************************)
(* Properties                                                              *)
(***************************************************************************)
CeilDiv(n, b) == (n + b - 1) \div b

RECURSIVE Concat(_)
Concat(bs) == IF bs = <<>> THEN <<>> ELSE Head(bs) \o Concat(Tail(bs))

RECURSIVE SumLen(_)
SumLen(bs) == IF bs = <<>> THEN 0 ELSE Len(Head(bs)) + SumLen(Tail(bs))

\* rows [lo, hi) of t, 0-based, written out element by element
RowsOf(t, lo, hi) == [j \in 1..(hi - lo) |-> t[lo + j]]

\* C1: for a table of N rows and a batch size B > 0, batch i (0-based) is
\* rows [i*B, min((i+1)*B, N)); when the loop ends there are ceil(N/B)
\* batches, their sizes sum to N and their concatenation is the table.
C1_Batching ==
    LET N == Len(table)
        B == bsize
        k == Len(batches)
    IN  /\ \A i \in 0..(k - 1) :
              batches[i + 1] = RowsOf(table, i * B, Min((i + 1) * B, N))
        /\ bstart = k * B
        /\ bstart >= N =>
              /\ k = CeilDiv(N, B)
              /\ SumLen(batches) = N
              /\ Concat(batches) = table

\* C1 witness: 1050 rows in batches of 500 have been cut into 500, 500, 50
C1_Witness ==
    /\ Len(table) = 1050
    /\ bsize = 500
    /\ bstart >= Len(table)
    /\ [i \in 1..Len(batches) |-> Len(batches[i])] = <<500, 500, 50>>

\* what the claim counts as a null value: None, a NaN float, a missing timestamp
IsMissing(v) ==
    \/ v.type = "NoneType"
    \/ v.type = "float" /\ v.text = "nan"
    \/ v.type = "NaTType"

IsTextual(v) == v.type = "str"

IsDateTime(v) == v.type \in {"Timestamp", "NaTType"}

ScalarTexts == {v.text : v \in Scalars}

IsSingleQuoted(out) == \E t \in ScalarTexts : out = "'" \o t \o "'"

IsTimestampLiteral(out) == \E t \in ScalarTexts : out = "TIMESTAMP '" \o t \o "'"

\* C2: format_value returns NULL iff the value is null or a NaN float, a
\* single-quoted string iff it is textual, a TIMESTAMP literal iff it exposes
\* a date/time decomposition, and otherwise its unquoted default text.
C2_FormatContract ==
    \A i \in 1..Len(vals) :
        LET v == row[i]
            out == vals[i]
        IN  /\ (out = "NULL") <=> IsMissing(v)
            /\ IsSingleQuoted(out) <=> IsTextual(v)
            /\ IsTimestampLiteral(out) <=> IsDateTime(v)
            /\ (~IsMissing(v) /\ ~IsTextual(v) /\ ~IsDateTime(v)) => out = v.text

\* a database error left the insertion loop while batches remained
FailedInLoop == result = "db_error" /\ start < Len(df)

\* C3: when the INSERT of batch k raises, the run ends with that error, no
\* later batch is submitted, no batch is submitted twice, and the table has
\* gained exactly the rows of batches 0..k-1.
C3_FailureKeepsPrefix ==
    FailedInLoop =>
        LET k == start \div BATCH_SIZE
        IN  /\ pc = "done"
            /\ reported = <<>>
            /\ start = k * BATCH_SIZE
            /\ dest = dest0 \o RowsOf(df, 0, start)
            /\ Len(drained) = k
            /\ Len(submitted) \in {k, k + 1}
            /\ \A i \in 1..Len(submitted) : submitted[i] = (i - 1) * BATCH_SIZE

\* C3 witness: batch 2 of a 20-batch run failed while being drained, in a run
\* that started on a table already holding rows
C3_Witness ==
    /\ FailedInLoop
    /\ pc = "done"
    /\ Len(df) = SAMPLE_SIZE
    /\ start = 2 * BATCH_SIZE
    /\ Len(submitted) = 3
    /\ Len(dest0) > 0
    /\ Len(dest) = Len(dest0) + 2 * BATCH_SIZE

\* C4: one connection and one cursor per run; the INSERTs are submitted in
\* batch order; batch i+1 is submitted only once batch i is drained; at most
\* one statement is in flight.
C4_OneStatementAtATime ==
    /\ conns <= 1
    /\ cursors <= 1
    /\ submitted # <<>> => conns = 1 /\ cursors = 1
    /\ \A i \in 1..Len(submitted) : submitted[i] = (i - 1) * BATCH_SIZE
    /\ Len(drained) <= Len(submitted)
    /\ Len(submitted) <= Len(drained) + 1
    /\ \A i \in 1..Len(drained) : drained[i] = submitted[i]
    /\ Cardinality(inflight) <= 1
    /\ inflight = {submitted[i] : i \in (Len(drained) + 1)..Len(submitted)}
    /\ pc = "fetch" <=> (inflight # {} /\ result = "running")

\* C4 witness: the third INSERT of a run is in flight, the first two drained
C4_Witness ==
    /\ pc = "fetch"
    /\ submitted = <<0, BATCH_SIZE, 2 * BATCH_SIZE>>
    /\ drained = <<0, BATCH_SIZE>>
    /\ inflight = {2 * BATCH_SIZE}

\* C5 (state part): the snapshot query is issued at most once in a run, only
\* when every batch of the run has been inserted, and once in a run that
\* reports.
C5_QueryAfterAllBatches ==
    /\ snapQueries <= 1
    /\ snapQueries = 1 =>
          /\ Len(drained) = CeilDiv(Len(df), BATCH_SIZE)
          /\ dest = dest0 \o df
          /\ inflight = {}
    /\ result = "ok" => snapQueries = 1
    /\ FailedInLoop => snapQueries = 0

\* C5 (step part): the step that issues the query changes neither the rows
\* nor the snapshot count of the table.
C5_QueryStepReadOnly ==
    snapQueries' = snapQueries + 1 =>
        /\ dest' = dest
        /\ snapshots' = snapshots
        /\ schemaSnaps' = schemaSnaps

\* C5: the snapshot-metadata query is issued exactly once per run, only after
\* every batch's INSERT succeeded, never in a run in which a batch failed, and
\* it changes neither the rows nor the snapshot count.
C5_SnapshotQuery == [](C5_QueryAfterAllBatches) /\ [][C5_QueryStepReadOnly]_vars

\* C5 witness: a 3-batch run has issued its snapshot query and reported
C5_Witness ==
    /\ pc = "done"
    /\ result = "ok"
    /\ snapQueries = 1
    /\ Len(drained) = 3
    /\ reported = <<1050, SnapshotView>>

\* exactly two runs were made, both inserted every batch and reported
TwoFullRuns == pc = "done" /\ runs = 2 /\ okRuns = 2 /\ badRuns = 0

\* C6: every full run adds one snapshot, whatever the number of batches it
\* submits; after two full runs against an empty table the snapshot-metadata
\* view reports 2 snapshots plus those from the table's creation.
C6_OneSnapshotPerRun ==
    /\ (pc = "done" /\ result = "ok") => snapshots = snap0 + 1
    /\ TwoFullRuns => SnapshotView = 2 + schemaSnaps

\* C7: two consecutive full runs on the same file against an empty table
\* leave two copies of the sampled rows: every sampled row is there exactly
\* twice and the row count is twice the sampled row count.
C7_TwoCopies ==
    TwoFullRuns =>
        LET n == Min(fileRows, SAMPLE_SIZE)
        IN  /\ Len(df) = n
            /\ \A i \in 1..n : df[i] = i
            /\ Len(dest) = 2 * n
            /\ \A i \in 1..n : dest[i] = df[i] /\ dest[n + i] = df[i]

\* C7 witness: two full runs of a 1050-row file left 2100 rows
C7_Witness ==
    /\ TwoFullRuns
    /\ fileRows = 1050
    /\ Len(dest) = 2100
    /\ dest[1050] = 1050
    /\ dest[1051] = 1

\* C8: when the download fails, raw_taxi_file raises and the run ends with no
\* connection opened for insertion and no INSERT submitted.
C8_DownloadFailureIsFatal ==
    result = "download_error" =>
        /\ pc = "done"
        /\ entry = "pipeline"
        /\ conns = 0
        /\ cursors = 0
        /\ submitted = <<>>
        /\ df = <<>>
        /\ dest = dest0
        /\ snapshots = snap0

\* C8 witness: a download failed while streaming, in a run whose
\* iceberg_schemas had created the table
C8_Witness ==
    /\ result = "download_error"
    /\ pc = "done"
    /\ file = "partial"
    /\ tableExists

\* the sizes of the batches drained so far, added up
RECURSIVE DrainedRows(_)
DrainedRows(k) ==
    IF k = 0 THEN 0
    ELSE DrainedRows(k - 1) + (Min(drained[k] + BATCH_SIZE, Len(df)) - drained[k])

\* C9: the running total is the sum of the sizes of the batches drained so
\* far, which is the number of rows the run has added to the table; a run
\* that completes reports min(rows in the file, SAMPLE_SIZE) rows inserted.
C9_RunningTotal ==
    /\ total = DrainedRows(Len(drained))
    /\ Len(dest) = Len(dest0) + total
    /\ result = "ok" => reported[1] = Min(fileRows, SAMPLE_SIZE)

\* C9 witness: a run on a file of more than SAMPLE_SIZE rows reported
\* SAMPLE_SIZE rows inserted
C9_Witness ==
    /\ result = "ok"
    /\ fileRows > SAMPLE_SIZE
    /\ reported[1] = SAMPLE_SIZE
    /\ total = SAMPLE_SIZE

\* C10: local_path exists only if some download of it ran to completion, and
\* no run finds it present, skips the download and passes it on for ingestion
\* when no download ever completed.
C10_FileOnlyIfDownloaded ==
    /\ file # "absent" => downloads > 0
    /\ (entry = "pipeline" /\ skipped /\ pc \in {"read", "connect", "loop", "fetch", "snap"})
          => downloads > 0

====
